---- MODULE Spec2Model ----
(***************************************************************************)
(* Model of src/main.py: a FastAPI application over a SQLite store of      *)
(* sensor readings.  One request is served at a time (the handlers are     *)
(* async functions that never await); an external ingestion process        *)
(* appends Measure rows between requests and between the queries of a      *)
(* handler.  Text is modelled as sequences of ASCII codes, so that the     *)
(* date formatting, the LIKE prefix match and SQLite's text comparison are *)
(* computed, not assumed.                                                  *)
(***************************************************************************)
EXTENDS Integers, Sequences, FiniteSets

VARIABLES
    measures,             \* table "measures": rows in insertion order
    today,                \* the calendar date of the wall clock
    default_target_date,  \* the default of sensorMinMax's target_date parameter
    pc,                   \* position of the request being served
    req,                  \* the request being served
    args,                 \* arguments bound to the handler when its body is called
    frame,                \* local variables of sensorMinMax
    resp,                 \* its response, until delivered
    sessions,             \* number of open store sessions
    acquired,             \* sessions acquired by that request
    nqueries              \* queries issued by its handler body

vars == <<measures, today, default_target_date, pc, req, args, frame, resp,
          sessions, acquired, nqueries>>

----------------------------------------------------------------------------
(* Bounds and input domains *)

MaxMeasures == 2

SensorIds == {7, 22}
MetricIds == {1, 2}
Days      == {2, 27}
RValues   == {-1, 0, 2}

None == <<>>
Some(v) == <<v>>
Opt(S) == {None} \cup {Some(v) : v \in S}

----------------------------------------------------------------------------
(* Tables *)

fake_users_db ==
    [u \in {"john_user", "alvin_admin"} |->
        IF u = "john_user"
        THEN [username |-> "john_user", role |-> "user", password |-> "password"]
        ELSE [username |-> "alvin_admin", role |-> "admin", password |-> "password123"]]

SensorTable ==
    << [sensor_id |-> 7,  serial_code |-> "A7",  name |-> "cellar"],
       [sensor_id |-> 22, serial_code |-> "A22", name |-> "attic"] >>

MetricTable ==
    << [metric_id |-> 1, metric_name |-> "temperature", unit_id |-> 1],
       [metric_id |-> 2, metric_name |-> "humidity",    unit_id |-> 2] >>

MkDate(d) == [year |-> 2019, month |-> 7, day |-> d]
MkDateTime(d, h) == [year |-> 2019, month |-> 7, day |-> d, hour |-> h]

Dates     == {MkDate(d) : d \in Days}
\* The instants of the modelled readings, on two days.
EarlyTime == MkDateTime(2, 3)
LateTime  == MkDateTime(27, 6)
DateTimes == {EarlyTime, LateTime}

Measure(id, s, m, t, v) ==
    [reading_id |-> id, sensor_id |-> s, metric_id |-> m, rtime |-> t, rvalue |-> v]

----------------------------------------------------------------------------
(* Text: sequences of ASCII codes *)

Pad2(n) == << 48 + ((n \div 10) % 10), 48 + (n % 10) >>
Pad4(n) == Pad2(n \div 100) \o Pad2(n % 100)

\* f"{target_date}": date.__str__ is isoformat(), "YYYY-MM-DD".
date_str(d) == Pad4(d.year) \o <<45>> \o Pad2(d.month) \o <<45>> \o Pad2(d.day)

\* The text SQLite holds for a DateTime column, which is also the text a
\* datetime criterion is bound as: "YYYY-MM-DD HH:MM:SS.ffffff".  Rows are
\* taken to be stored in this format of the column's declared type.
\* Minutes, seconds and microseconds of the modelled readings are zero.
db_datetime(t) ==
    Pad4(t.year) \o <<45>> \o Pad2(t.month) \o <<45>> \o Pad2(t.day) \o <<32>>
    \o Pad2(t.hour) \o <<58, 48, 48, 58, 48, 48, 46, 48, 48, 48, 48, 48, 48>>

\* column LIKE 'pattern%' for a pattern without wildcards.
like_prefix(text, pattern) ==
    /\ Len(text) >= Len(pattern)
    /\ \A i \in 1..Len(pattern) : text[i] = pattern[i]

\* SQLite's BINARY collation: bytewise comparison, a proper prefix sorts first.
text_lt(a, b) ==
    LET n     == IF Len(a) < Len(b) THEN Len(a) ELSE Len(b)
        diffs == {i \in 1..n : a[i] # b[i]}
    IN  IF diffs = {} THEN Len(a) < Len(b)
        ELSE LET k == CHOOSE i \in diffs : \A j \in diffs : i <= j
             IN  a[k] < b[k]

text_le(a, b) == a = b \/ text_lt(a, b)

----------------------------------------------------------------------------
(* Queries *)

\* The WHERE clause without its LIKE on rtime.
DayRows_anyDate(ms, s, m, d) ==
    SelectSeq(ms, LAMBDA r : r.sensor_id = s /\ r.metric_id = m)

\* The WHERE clause shared by the two queries of sensorMinMax.
DayRows(ms, s, m, d) ==
    SelectSeq(ms, LAMBDA r :
        /\ r.sensor_id = s
        /\ r.metric_id = m
        /\ like_prefix(db_datetime(r.rtime), date_str(d)))

\* select(Measure.rvalue)...order_by(Measure.rvalue).first()
QueryMin(ms, s, m, d) ==
    LET rows == DayRows(ms, s, m, d) IN
    IF rows = <<>> THEN None
    ELSE Some(CHOOSE v \in {rows[i].rvalue : i \in 1..Len(rows)} :
                  \A j \in 1..Len(rows) : v <= rows[j].rvalue)

\* The maximum query ordered ascending.
QueryMax_asc(ms, s, m, d) == QueryMin(ms, s, m, d)

\* select(Measure.rvalue)...order_by(Measure.rvalue.desc()).first()
QueryMax(ms, s, m, d) ==
    LET rows == DayRows(ms, s, m, d) IN
    IF rows = <<>> THEN None
    ELSE Some(CHOOSE v \in {rows[i].rvalue : i \in 1..Len(rows)} :
                  \A j \in 1..Len(rows) : v >= rows[j].rvalue)

\* Python truth value of "float | None": None and 0.0 are false.
Truthy(q) == q # None /\ q[1] # 0

MetricMinMax(name, lo, hi) == [metric |-> name, min_value |-> lo, max_value |-> hi]

\* result.append(SensorMinMax(...)) skipped for a sensor without metrics entries.
SensorMinMaxAppend_dropEmpty(result, s, d, mmm) ==
    IF mmm = <<>> THEN result
    ELSE Append(result, [sensor |-> s, date |-> d, metrics |-> mmm])

\* result.append(SensorMinMax(sensor = s, date = target_date, metrics = metrics_min_max))
SensorMinMaxAppend(result, s, d, mmm) ==
    Append(result, [sensor |-> s, date |-> d, metrics |-> mmm])

\* The row an ascending ORDER BY rtime would put first.
LatestMeasure_asc(ms, sid, tie) ==
    LET rows == SelectSeq(ms, LAMBDA r : r.sensor_id = sid)
        top  == {i \in 1..Len(rows) :
                    \A j \in 1..Len(rows) :
                        text_le(db_datetime(rows[i].rtime), db_datetime(rows[j].rtime))}
    IN  IF rows = <<>> THEN None
        ELSE Some(rows[CHOOSE i \in top : \A j \in top : i <= j])

\* select(Measure).where(sensor_id == sid).order_by(Measure.rtime.desc()).first()
\* Rows with equal rtime come in an order the store chooses: tie tells which
\* of them is scanned first.
LatestMeasure(ms, sid, tie) ==
    LET rows == SelectSeq(ms, LAMBDA r : r.sensor_id = sid)
        top  == {i \in 1..Len(rows) :
                    \A j \in 1..Len(rows) :
                        text_le(db_datetime(rows[j].rtime), db_datetime(rows[i].rtime))}
    IN  IF rows = <<>> THEN None
        ELSE Some(rows[CHOOSE i \in top :
                          \A j \in top : IF tie = "first" THEN i <= j ELSE i >= j])

\* The embedded measure with its sensor_id projected out.
SensorWithMeasure_projected(s, measure) ==
    [sensor_id |-> s.sensor_id, serial_code |-> s.serial_code, name |-> s.name,
     latest_measure |->
        IF measure = None THEN None
        ELSE Some([reading_id |-> measure[1].reading_id,
                   metric_id  |-> measure[1].metric_id,
                   rtime      |-> measure[1].rtime,
                   rvalue     |-> measure[1].rvalue])]

\* SensorWithMeasure(sensor_id=..., serial_code=..., name=..., latest_measure=measure)
SensorWithMeasure(s, measure) ==
    [sensor_id |-> s.sensor_id, serial_code |-> s.serial_code, name |-> s.name,
     latest_measure |-> measure]

\* measureFilter's query built with truth-value tests ("if target_sensor_id:").
FilterQuery_truthy(ms, a) ==
    SelectSeq(ms, LAMBDA r :
        /\ Truthy(a.target_sensor_id) => r.sensor_id = a.target_sensor_id[1]
        /\ Truthy(a.target_metric_id) => r.metric_id = a.target_metric_id[1]
        /\ a.time_from # None =>
               text_le(db_datetime(a.time_from[1]), db_datetime(r.rtime))
        /\ a.time_to # None =>
               text_le(db_datetime(r.rtime), db_datetime(a.time_to[1]))
        /\ Truthy(a.value_from) => r.rvalue >= a.value_from[1]
        /\ Truthy(a.value_to) => r.rvalue <= a.value_to[1])

\* measureFilter's query: one WHERE per criterion that "is not None".
FilterQuery(ms, a) ==
    SelectSeq(ms, LAMBDA r :
        /\ a.target_sensor_id # None => r.sensor_id = a.target_sensor_id[1]
        /\ a.target_metric_id # None => r.metric_id = a.target_metric_id[1]
        /\ a.time_from # None =>
               text_le(db_datetime(a.time_from[1]), db_datetime(r.rtime))
        /\ a.time_to # None =>
               text_le(db_datetime(r.rtime), db_datetime(a.time_to[1]))
        /\ a.value_from # None => r.rvalue >= a.value_from[1]
        /\ a.value_to # None => r.rvalue <= a.value_to[1])

----------------------------------------------------------------------------
(* Dependencies: authentication and the store session *)

Tokens == {"john_user", "alvin_admin", "mallory"}

\* oauth2_scheme followed by get_current_user.  A request without an
\* Authorization header is refused by oauth2_scheme with 401.
get_current_user(token) ==
    IF token = None THEN [status |-> 401, user |-> None]
    ELSE IF token[1] \notin DOMAIN fake_users_db THEN [status |-> 401, user |-> None]
    ELSE [status |-> 200, user |-> Some(fake_users_db[token[1]])]

\* get_current_admin without its role test.
get_current_admin_anyRole(current_user) == current_user

\* current_user is the outcome of the get_current_user dependency.
get_current_admin(current_user) ==
    IF current_user.status # 200 THEN current_user
    ELSE IF current_user.user[1].role # "admin" THEN [status |-> 403, user |-> None]
    ELSE current_user

\* The dependencies each endpoint declares besides the session.
Gate(endpoint, token) ==
    IF endpoint = "sensorList" THEN [status |-> 200, user |-> None]
    ELSE IF endpoint = "sensorMinMax" THEN get_current_user(token)
    ELSE get_current_admin(get_current_user(token))

\* get_session up to its yield: "with Session(engine) as session".
OpenSession(n) == n + 1

\* A get_session that never leaves its with block.
CloseSession_leak(n) == n

\* get_session after its yield: leaving the with block closes the session.
CloseSession(n) == n - 1

----------------------------------------------------------------------------
(* Requests *)

FilterArgs ==
    [target_sensor_id : Opt({22}), target_metric_id : Opt({1}),
     time_from : Opt({LateTime}), time_to : Opt({EarlyTime}),
     value_from : Opt({0}), value_to : Opt({0})]

NoReq == [endpoint |-> "none", token |-> None]
NoArgs == [endpoint |-> "none"]
NoFrame == [si |-> 0, mi |-> 0, result |-> <<>>, metrics_min_max |-> <<>>,
            query_min_value |-> None]
NoResp == [status |-> 0, body |-> <<>>]

Init ==
    /\ measures = <<>>
    /\ today = MkDate(2)
    /\ default_target_date = today      \* "target_date: date = date.today()" at import
    /\ pc = "idle"
    /\ req = NoReq
    /\ args = NoArgs
    /\ frame = NoFrame
    /\ resp = NoResp
    /\ sessions = 0
    /\ acquired = 0
    /\ nqueries = 0

\* A request arrives.  FastAPI resolves the handler's dependencies in the
\* order of its parameters (the session first, then the user), and binds the
\* query parameters afterwards; an HTTPException raised by a dependency ends
\* the request, unwinding get_session, before the handler is called.
Receive(endpoint, token, query) ==
    LET gate == Gate(endpoint, token) IN
    /\ pc = "idle"
    /\ req' = [endpoint |-> endpoint, token |-> token]
    /\ acquired' = 1
    /\ nqueries' = 0
    /\ frame' = NoFrame
    /\ IF gate.status = 200
       THEN /\ pc' = "body"
            /\ args' = query
            /\ resp' = NoResp
            /\ sessions' = OpenSession(sessions)
       ELSE /\ pc' = "done"
            /\ args' = NoArgs
            /\ resp' = [status |-> gate.status, body |-> <<>>]
            /\ sessions' = CloseSession(OpenSession(sessions))
    /\ UNCHANGED <<measures, today, default_target_date>>

ReceiveSensorList ==
    \E token \in Opt(Tokens) :
        Receive("sensorList", token, [endpoint |-> "sensorList"])

\* target_date is the query parameter when given, else the parameter's default.
ReceiveSensorMinMax ==
    \E token \in Opt(Tokens), given \in Opt(Dates) :
        Receive("sensorMinMax", token,
                [endpoint |-> "sensorMinMax", given |-> given,
                 target_date |-> IF given = None THEN default_target_date
                                 ELSE given[1]])

ReceiveMeasureFilter ==
    \E token \in Opt(Tokens), a \in FilterArgs :
        Receive("measureFilter", token, a)

----------------------------------------------------------------------------
(* Handlers *)

\* The handler returns body: the response is produced and get_session unwinds.
Return(body) ==
    /\ resp' = [status |-> 200, body |-> body]
    /\ sessions' = CloseSession(sessions)
    /\ pc' = "done"

\* sensorList, lines 134-143: one query for the sensors, one per sensor.
sensorList ==
    /\ pc = "body"
    /\ req.endpoint = "sensorList"
    /\ \E tie \in {"first", "last"} :
          Return([i \in 1..Len(SensorTable) |->
                    SensorWithMeasure(SensorTable[i],
                        LatestMeasure(measures, SensorTable[i].sensor_id, tie))])
    /\ nqueries' = nqueries + 1 + Len(SensorTable)
    /\ UNCHANGED <<measures, today, default_target_date, req, args, frame,
                   acquired>>

\* measureFilter, lines 176-190: one query.
measureFilter ==
    /\ pc = "body"
    /\ req.endpoint = "measureFilter"
    /\ Return(FilterQuery(measures, args))
    /\ nqueries' = nqueries + 1
    /\ UNCHANGED <<measures, today, default_target_date, req, args, frame,
                   acquired>>

\* sensorMinMax: the end of one sensor's metrics loop (line 170) and the step
\* of the sensors loop (line 150).
EndSensor(f, d) ==
    LET res == SensorMinMaxAppend(f.result, SensorTable[f.si], d, f.metrics_min_max)
    IN  IF f.si < Len(SensorTable)
        THEN [pc |-> "metrics", frame |-> [f EXCEPT !.result = res, !.si = f.si + 1]]
        ELSE [pc |-> "return", frame |-> [f EXCEPT !.result = res]]

\* sensorMinMax: the step of the metrics loop (line 153).
NextMetric(f, d) ==
    IF f.mi < Len(MetricTable)
    THEN [pc |-> "min", frame |-> [f EXCEPT !.mi = f.mi + 1]]
    ELSE EndSensor(f, d)

\* Move to where nx says; the handler returns result when the loops are over.
Goto(nx) ==
    /\ frame' = nx.frame
    /\ IF nx.pc = "return"
       THEN Return(nx.frame.result)
       ELSE pc' = nx.pc /\ UNCHANGED <<resp, sessions>>

\* sensorMinMax, line 148: sensors = session.exec(select(Sensor)).all()
mm_sensors ==
    /\ pc = "body"
    /\ req.endpoint = "sensorMinMax"
    /\ nqueries' = nqueries + 1
    /\ Goto(IF Len(SensorTable) = 0
            THEN [pc |-> "return", frame |-> frame]
            ELSE [pc |-> "metrics", frame |-> [frame EXCEPT !.si = 1]])
    /\ UNCHANGED <<measures, today, default_target_date, req, args, acquired>>

\* sensorMinMax, lines 151-152: metrics = session.exec(select(Metric)).all()
mm_metrics ==
    /\ pc = "metrics"
    /\ nqueries' = nqueries + 1
    /\ LET f == [frame EXCEPT !.metrics_min_max = <<>>, !.query_min_value = None]
       IN  Goto(IF Len(MetricTable) = 0
                THEN EndSensor(f, args.target_date)
                ELSE [pc |-> "min", frame |-> [f EXCEPT !.mi = 1]])
    /\ UNCHANGED <<measures, today, default_target_date, req, args, acquired>>

\* sensorMinMax, lines 154-161: the minimum query and "if query_min_value:"
mm_min ==
    /\ pc = "min"
    /\ nqueries' = nqueries + 1
    /\ LET q == QueryMin(measures, SensorTable[frame.si].sensor_id,
                         MetricTable[frame.mi].metric_id, args.target_date)
           f == [frame EXCEPT !.query_min_value = q]
       IN  Goto(IF Truthy(q)
                THEN [pc |-> "max", frame |-> f]
                ELSE NextMetric(f, args.target_date))
    /\ UNCHANGED <<measures, today, default_target_date, req, args, acquired>>

\* sensorMinMax, lines 162-169: the maximum query and the entry's append
mm_max ==
    /\ pc = "max"
    /\ nqueries' = nqueries + 1
    /\ LET q == QueryMax(measures, SensorTable[frame.si].sensor_id,
                         MetricTable[frame.mi].metric_id, args.target_date)
           f == [frame EXCEPT !.metrics_min_max =
                    Append(@, MetricMinMax(MetricTable[frame.mi].metric_name,
                                           frame.query_min_value, q))]
       IN  Goto(NextMetric(f, args.target_date))
    /\ UNCHANGED <<measures, today, default_target_date, req, args, acquired>>

\* A query of the handler raises: nothing catches it, the handler's frame is
\* unwound, the request ends with 500 and get_session unwinds.
StoreFailure ==
    /\ pc \in {"body", "metrics", "min", "max"}
    /\ resp' = [status |-> 500, body |-> <<>>]
    /\ sessions' = CloseSession(sessions)
    /\ pc' = "done"
    /\ args' = NoArgs
    /\ frame' = NoFrame
    /\ UNCHANGED <<measures, today, default_target_date, req, acquired, nqueries>>

\* The response has been sent: the request is over and its state is dropped.
Deliver ==
    /\ pc = "done"
    /\ pc' = "idle"
    /\ req' = NoReq
    /\ args' = NoArgs
    /\ frame' = NoFrame
    /\ resp' = NoResp
    /\ acquired' = 0
    /\ nqueries' = 0
    /\ UNCHANGED <<measures, today, default_target_date, sessions>>

----------------------------------------------------------------------------
(* Environment *)

\* The ingestion process appends one Measure row.
Ingest ==
    /\ Len(measures) < MaxMeasures
    /\ \E s \in SensorIds, m \in MetricIds, t \in DateTimes, v \in RValues :
          measures' = Append(measures, Measure(Len(measures) + 1, s, m, t, v))
    /\ UNCHANGED <<today, default_target_date, pc, req, args, frame, resp,
                   sessions, acquired, nqueries>>

\* The ingestion process may append at any moment.  Two kinds of moment are
\* kept, those at which the row's arrival can be told apart: between two
\* requests, and between two queries of sensorMinMax.  Before the single
\* query of the other handlers the append commutes with the request's steps,
\* which read no Measure there; after a handler's last query the response is
\* already computed.
AppendBetweenRequests == pc = "idle" /\ Ingest

AppendBetweenQueries == pc \in {"metrics", "min", "max"} /\ Ingest

\* Midnight passes.
Tick ==
    /\ \E d \in Dates : d.day > today.day /\ today' = d
    /\ UNCHANGED <<measures, default_target_date, pc, req, args, frame, resp,
                   sessions, acquired, nqueries>>

Next ==
    \/ ReceiveSensorList
    \/ ReceiveSensorMinMax
    \/ ReceiveMeasureFilter
    \/ sensorList
    \/ measureFilter
    \/ mm_sensors
    \/ mm_metrics
    \/ mm_min
    \/ mm_max
    \/ StoreFailure
    \/ Deliver
    \/ AppendBetweenRequests
    \/ AppendBetweenQueries
    \/ Tick

\* The whole system.
Spec == Init /\ [][Next]_vars

\* Clients that only call measureFilter.
NextFilter ==
    \/ ReceiveMeasureFilter
    \/ measureFilter
    \/ StoreFailure
    \/ Deliver
    \/ AppendBetweenRequests

SpecFilter == Init /\ [][NextFilter]_vars

\* Clients that only call sensorList.
NextList ==
    \/ ReceiveSensorList
    \/ sensorList
    \/ StoreFailure
    \/ Deliver
    \/ AppendBetweenRequests

SpecList == Init /\ [][NextList]_vars

\* Clients that only call sensorMinMax, with the ingestion process running.
NextMinMax ==
    \/ ReceiveSensorMinMax
    \/ mm_sensors
    \/ mm_metrics
    \/ mm_min
    \/ mm_max
    \/ StoreFailure
    \/ Deliver
    \/ AppendBetweenRequests
    \/ AppendBetweenQueries

SpecMinMax == Init /\ [][NextMinMax]_vars

\* Clients that only call sensorMinMax, the store unchanged during a call.
NextQuiet ==
    \/ ReceiveSensorMinMax
    \/ mm_sensors
    \/ mm_metrics
    \/ mm_min
    \/ mm_max
    \/ StoreFailure
    \/ Deliver
    \/ AppendBetweenRequests

SpecQuiet == Init /\ [][NextQuiet]_vars

----------------------------------------------------------------------------
(* Properties.  The reference notions below are stated on the values        *)
(* themselves (calendar fields, numbers), not on their text.                *)

Range(seq) == {seq[i] : i \in 1..Len(seq)}

Served(endpoint) == pc = "done" /\ req.endpoint = endpoint /\ resp.status = 200

Running == pc \in {"body", "metrics", "min", "max"}

OnDate(t, d) == t.year = d.year /\ t.month = d.month /\ t.day = d.day

Stamp(t) == ((t.year * 100 + t.month) * 100 + t.day) * 100 + t.hour

KnownUser(token) == token # None /\ token[1] \in {"john_user", "alvin_admin"}

IsAdmin(token) == token = Some("alvin_admin")

\* The Measures of sensor s and metric m recorded on date d.
RowsOn(s, m, d) ==
    {r \in Range(measures) : r.sensor_id = s /\ r.metric_id = m /\ OnDate(r.rtime, d)}

MetricIdOf(name) == (CHOOSE x \in Range(MetricTable) : x.metric_name = name).metric_id

\* Every entry emitted so far by the running or finished sensorMinMax call,
\* with the sensor it was emitted under.
EntriesOf(sensor, metrics) ==
    {[sensor_id |-> sensor.sensor_id, entry |-> e] : e \in Range(metrics)}

Emitted ==
    IF req.endpoint # "sensorMinMax" THEN {}
    ELSE (UNION {EntriesOf(x.sensor, x.metrics) : x \in Range(frame.result)})
         \cup (IF pc \in {"min", "max"}
               THEN EntriesOf(SensorTable[frame.si], frame.metrics_min_max)
               ELSE {})

\* C1: the body of measureFilter runs only for a token of a known user whose
\* role is admin, and the body of sensorMinMax only for a token of a known
\* user; an unknown or missing token ends with 401, a known user who is not
\* admin ends measureFilter with 403, and a rejected request has issued no
\* query; sensorList is never rejected, whatever token it carries or lacks.
C1_GateBeforeBody ==
    /\ (req.endpoint = "measureFilter" /\ (Running \/ nqueries > 0))
          => IsAdmin(req.token)
    /\ (req.endpoint = "sensorMinMax" /\ (Running \/ nqueries > 0))
          => KnownUser(req.token)
    /\ (pc = "done" /\ req.endpoint \in {"sensorMinMax", "measureFilter"}
            /\ ~KnownUser(req.token))
          => resp.status = 401 /\ nqueries = 0
    /\ (pc = "done" /\ req.endpoint = "measureFilter"
            /\ KnownUser(req.token) /\ ~IsAdmin(req.token))
          => resp.status = 403 /\ nqueries = 0
    /\ (pc = "done" /\ req.endpoint = "sensorList") => resp.status \in {200, 500}

C1_Witness ==
    /\ pc = "done"
    /\ req.endpoint = "measureFilter"
    /\ req.token = Some("john_user")
    /\ resp.status = 403

\* The criteria of measureFilter read as a predicate on one Measure.
Satisfies(r, a) ==
    /\ a.target_sensor_id # None => r.sensor_id = a.target_sensor_id[1]
    /\ a.target_metric_id # None => r.metric_id = a.target_metric_id[1]
    /\ a.time_from # None => Stamp(r.rtime) >= Stamp(a.time_from[1])
    /\ a.time_to # None => Stamp(r.rtime) <= Stamp(a.time_to[1])
    /\ a.value_from # None => r.rvalue >= a.value_from[1]
    /\ a.value_to # None => r.rvalue <= a.value_to[1]

Occurrences(seq, x) == Cardinality({i \in 1..Len(seq) : seq[i] = x})

\* C2: measureFilter returns exactly the Measures that satisfy every present
\* criterion (bounds inclusive), each exactly once; absent criteria do not
\* narrow, so with none present every Measure is returned once.
C2_FilterExact ==
    Served("measureFilter") =>
        /\ Range(resp.body) \subseteq Range(measures)
        /\ \A r \in Range(measures) :
              Occurrences(resp.body, r) = IF Satisfies(r, args) THEN 1 ELSE 0

\* A present bound of 0 has narrowed the result, and kept a row equal to it.
C2_Witness ==
    /\ Served("measureFilter")
    /\ args.value_from = Some(0)
    /\ Len(resp.body) = 1
    /\ Len(measures) = 2
    /\ resp.body[1].rvalue = 0

\* C3 as claimed: sensorMinMax emits an entry for metric m under sensor s
\* exactly when a Measure of s and m on the target date is in the store.
C3_EntryIffRows ==
    Served("sensorMinMax") =>
        \A i \in 1..Len(resp.body) : \A m \in Range(MetricTable) :
            (\E e \in Range(resp.body[i].metrics) : e.metric = m.metric_name)
            <=> RowsOn(resp.body[i].sensor.sensor_id, m.metric_id,
                       args.target_date) # {}

Least(S) == CHOOSE v \in S : \A w \in S : v <= w
Greatest(S) == CHOOSE v \in S : \A w \in S : v >= w

\* C4: with the store unchanged during the call, every emitted entry carries
\* the minimum and the maximum rvalue over exactly the Measures of its sensor
\* and metric recorded on the target date.
C4_MinMaxOfTheDay ==
    Served("sensorMinMax") =>
        \A i \in 1..Len(resp.body) : \A e \in Range(resp.body[i].metrics) :
            LET rows == RowsOn(resp.body[i].sensor.sensor_id, MetricIdOf(e.metric),
                               args.target_date)
                vals == {r.rvalue : r \in rows}
            IN  /\ rows # {}
                /\ e.min_value = Some(Least(vals))
                /\ e.max_value = Some(Greatest(vals))

\* An entry was emitted while a Measure of the same sensor and metric, on
\* another date and with a smaller value, is in the store.
C4_Witness ==
    /\ Served("sensorMinMax")
    /\ \E i \in 1..Len(resp.body) : \E e \in Range(resp.body[i].metrics) :
          \E r \in Range(measures) :
              /\ r.sensor_id = resp.body[i].sensor.sensor_id
              /\ r.metric_id = MetricIdOf(e.metric)
              /\ ~OnDate(r.rtime, args.target_date)
              /\ r.rvalue < e.min_value[1]

\* C5: sensorList returns one element per Sensor; its latest_measure is absent
\* exactly when the sensor has no Measure, and otherwise is a Measure of that
\* sensor with the greatest rtime among the sensor's Measures.
C5_LatestPerSensor ==
    Served("sensorList") =>
        /\ Len(resp.body) = Len(SensorTable)
        /\ \A i \in 1..Len(resp.body) :
              LET s    == SensorTable[i]
                  mine == {r \in Range(measures) : r.sensor_id = s.sensor_id}
                  lm   == resp.body[i].latest_measure
              IN  /\ resp.body[i].sensor_id = s.sensor_id
                  /\ resp.body[i].serial_code = s.serial_code
                  /\ resp.body[i].name = s.name
                  /\ lm = None <=> mine = {}
                  /\ lm # None =>
                        /\ lm[1] \in mine
                        /\ \A r \in mine : Stamp(r.rtime) <= Stamp(lm[1].rtime)

\* One sensor has Measures at T1 < T2 and the one at T2 is listed; the other
\* sensor has none.
C5_Witness ==
    /\ Served("sensorList")
    /\ resp.body[1].latest_measure # None
    /\ resp.body[2].latest_measure = None
    /\ \E r \in Range(measures) :
          Stamp(r.rtime) < Stamp(resp.body[1].latest_measure[1].rtime)

\* C6 as claimed: a call of sensorMinMax that gives no target_date works on
\* the current date at the time of the call.
C6_DefaultIsDateOfCall ==
    [][(/\ pc = "idle"
        /\ pc' = "body"
        /\ req'.endpoint = "sensorMinMax"
        /\ args'.given = None) => args'.target_date = today]_vars

\* C7 as claimed: the measure embedded in an element of sensorList does not
\* carry its own sensor_id.
C7_SensorIdProjectedOut ==
    Served("sensorList") =>
        \A i \in 1..Len(resp.body) :
            resp.body[i].latest_measure # None =>
                "sensor_id" \notin DOMAIN resp.body[i].latest_measure[1]

\* C7 amended: the measure embedded in an element of sensorList is the raw
\* Measure record of the store, all five fields, its sensor_id equal to the
\* element's.
C7_EmbeddedIsRawMeasure ==
    Served("sensorList") =>
        \A i \in 1..Len(resp.body) :
            LET lm == resp.body[i].latest_measure IN
            lm # None =>
                /\ DOMAIN lm[1] =
                      {"reading_id", "sensor_id", "metric_id", "rtime", "rvalue"}
                /\ lm[1].sensor_id = resp.body[i].sensor_id
                /\ lm[1] \in Range(measures)

C7_Witness ==
    /\ Served("sensorList")
    /\ \E i \in 1..Len(resp.body) :
          /\ resp.body[i].latest_measure # None
          /\ resp.body[i].latest_measure[1].sensor_id = 22

C8_MinLeMax ==
    \A x \in Emitted :
        /\ x.entry.min_value # None
        /\ x.entry.max_value # None
        /\ x.entry.min_value[1] <= x.entry.max_value[1]

\* The minimum query of the pair at hand finds no row: the step moves on
\* without heading for the entry's append.
C8_NoRowsNoEntry ==
    (/\ pc = "min"
     /\ nqueries' = nqueries + 1
     /\ RowsOn(SensorTable[frame.si].sensor_id, MetricTable[frame.mi].metric_id,
               args.target_date) = {})
        => pc' # "max" /\ Emitted' = Emitted

\* C8: while the ingestion process appends Measures between the queries of a
\* sensorMinMax call, every emitted entry has min_value <= max_value, and no
\* entry is emitted for a pair without a matching row when its minimum query
\* runs.
C8_AppendsKeepMinLeMax == []C8_MinLeMax /\ [][C8_NoRowsNoEntry]_vars

\* An entry whose minimum is no longer the minimum of the store: a smaller
\* value arrived after the minimum query.
C8_Witness ==
    \E x \in Emitted :
        \E r \in RowsOn(x.sensor_id, MetricIdOf(x.entry.metric), args.target_date) :
            r.rvalue < x.entry.min_value[1]

\* C9: a request holds one session while its handler runs, has acquired
\* exactly one, and holds none once it has ended, whether by a normal return,
\* a 401 or 403 of the gate, or a failed query; between requests none is open.
C9_SessionScoped ==
    /\ Running => sessions = 1 /\ acquired = 1
    /\ pc = "done" => sessions = 0 /\ acquired = 1
    /\ pc = "idle" => sessions = 0

\* A request whose query failed has ended with its session closed.
C9_Witness ==
    /\ pc = "done"
    /\ resp.status = 500
    /\ acquired = 1
    /\ sessions = 0

\* C10: sensorMinMax returns one element per Sensor, in the store's order,
\* carrying the sensor and the target date, also for a sensor without any
\* Measure on that date, whose metrics list is empty.
C10_OneElementPerSensor ==
    Served("sensorMinMax") =>
        /\ Len(resp.body) = Len(SensorTable)
        /\ \A i \in 1..Len(resp.body) :
              /\ resp.body[i].sensor = SensorTable[i]
              /\ resp.body[i].date = args.target_date
              /\ (\A r \in Range(measures) :
                      r.sensor_id = SensorTable[i].sensor_id
                          => ~OnDate(r.rtime, args.target_date))
                    => resp.body[i].metrics = <<>>

\* A sensor whose Measures are all on another date is listed with no metrics.
C10_Witness ==
    /\ Served("sensorMinMax")
    /\ \E i \in 1..Len(resp.body) :
          /\ resp.body[i].metrics = <<>>
          /\ \E r \in Range(measures) : r.sensor_id = resp.body[i].sensor.sensor_id
          /\ \A r \in Range(measures) :
                r.sensor_id = resp.body[i].sensor.sensor_id
                    => ~OnDate(r.rtime, args.target_date)

====
